---- MODULE Spec2Model ----
(***************************************************************************)
(* Model of the insurance-form-automation pipeline:                        *)
(*   modules/docx_handler.py   find_placeholders, replace_placeholders     *)
(*   modules/pdf_extractor.py  extract_text_from_multiple_pdfs             *)
(*   modules/llm_processor.py  extract_fields_from_text                    *)
(*   app.py                    the "Process Documents" pipeline            *)
(* A Python str is a sequence of one-character strings.  A paragraph is    *)
(* the sequence of the texts of its runs.  A dict is a sequence of         *)
(* [key, value] records with distinct keys, in insertion order.           *)
(***************************************************************************)
EXTENDS Integers, Sequences, FiniteSets, TLC

VARIABLES pc, template_file, report_files, doc, placeholders, extracted_text,
          extracted_data, n_replaced, doc_bytes, download, llm_calls, llm_response

vars == <<pc, template_file, report_files, doc, placeholders, extracted_text,
          extracted_data, n_replaced, doc_bytes, download, llm_calls, llm_response>>

\* ------------------------------------------------------------------------
\* Bounds of the model
\* ------------------------------------------------------------------------
\* paragraphs of a document handed directly to the docx_handler functions
MaxParas == 2
\* uploaded photo reports
MaxReports == 2
\* characters of a field name of the one-token paragraphs
MaxNameLen == 1

\* ------------------------------------------------------------------------
\* Python str
\* ------------------------------------------------------------------------
\* the characters the model uses, in code-point order
CodePoints == <<" ", "A", "B", "F", "N", "[", "]", "_", "a", "d", "e", "n",
                "o", "t", "u", "x", "{", "}">>

Ord(c) == CHOOSE i \in 1..Len(CodePoints) : CodePoints[i] = c

\* the character class [A-Za-z_]
UpperLowerOrUnderscore ==
    {"A", "B", "C", "D", "E", "F", "G", "H", "I", "J", "K", "L", "M",
     "N", "O", "P", "Q", "R", "S", "T", "U", "V", "W", "X", "Y", "Z", "_",
     "a", "b", "c", "d", "e", "f", "g", "h", "i", "j", "k", "l", "m",
     "n", "o", "p", "q", "r", "s", "t", "u", "v", "w", "x", "y", "z"}

\* the character class [A-Z_]
UpperOrUnderscore == {"A", "B", "C", "D", "E", "F", "G", "H", "I", "J", "K", "L", "M",
                      "N", "O", "P", "Q", "R", "S", "T", "U", "V", "W", "X", "Y", "Z", "_"}

Range(f) == {f[i] : i \in DOMAIN f}

RECURSIVE Concat(_)
\* ''.join(ss)
Concat(ss) == IF ss = <<>> THEN <<>> ELSE Head(ss) \o Concat(Tail(ss))

\* s[i:i+len(t)] == t
OccursAt(s, t, i) ==
    /\ i >= 1
    /\ i + Len(t) - 1 <= Len(s)
    /\ \A j \in 1..Len(t) : s[i + j - 1] = t[j]

\* t in s
Contains(s, t) == \E i \in 1..(Len(s) + 1) : OccursAt(s, t, i)

RECURSIVE ReplaceFrom(_, _, _, _)
\* s.replace(old, new) from position i on: leftmost occurrences, not overlapping
ReplaceFrom(s, old, new, i) ==
    IF i > Len(s) THEN <<>>
    ELSE IF OccursAt(s, old, i) THEN new \o ReplaceFrom(s, old, new, i + Len(old))
    ELSE <<s[i]>> \o ReplaceFrom(s, old, new, i + 1)

\* s.replace(old, new), old not empty
StrReplace(s, old, new) == ReplaceFrom(s, old, new, 1)

\* s < t for Python strings
StrLess(s, t) ==
    \E i \in 1..(Len(t)) :
        /\ \A j \in 1..(i - 1) : j <= Len(s) /\ s[j] = t[j]
        /\ \/ i = Len(s) + 1
           \/ i <= Len(s) /\ Ord(s[i]) < Ord(t[i])

RECURSIVE Sorted(_)
\* sorted(list(S)) for a set S of strings
Sorted(S) ==
    IF S = {} THEN <<>>
    ELSE LET m == CHOOSE x \in S : \A y \in S \ {x} : StrLess(x, y)
         IN  <<m>> \o Sorted(S \ {m})

\* a value of a parsed JSON object: a str or None (JSON null)
JStr(s) == [t |-> "str", s |-> s]
JNull == [t |-> "null", s |-> <<>>]

\* str(value)
Str(value) == IF value.t = "str" THEN value.s ELSE <<"N", "o", "n", "e">>

\* ------------------------------------------------------------------------
\* The three patterns of find_placeholders (re.findall)
\* ------------------------------------------------------------------------
\* end of the run of characters of class cls that starts at i (i - 1 when empty)
RECURSIVE RunEnd(_, _, _)
RunEnd(s, i, cls) ==
    IF i <= Len(s) /\ s[i] \in cls THEN RunEnd(s, i + 1, cls) ELSE i - 1

\* every character but "}" : the class [^}]
NotCloseBrace == {CodePoints[i] : i \in 1..Len(CodePoints)} \ {"}"}

\* r'\{\{([^}]+)\}\}' matched at i: the position of the last character, 0 if none
MatchDouble(s, i) ==
    IF OccursAt(s, <<"{", "{">>, i)
    THEN LET e == RunEnd(s, i + 2, NotCloseBrace)
         IN  IF e >= i + 2 /\ OccursAt(s, <<"}", "}">>, e + 1) THEN e + 2 ELSE 0
    ELSE 0

\* r'\[([A-Z_]+)\]' and r'\{([A-Z_]+)\}' matched at i, with delimiters open, close
MatchUpper(s, i, open, close) ==
    IF OccursAt(s, <<open>>, i)
    THEN LET e == RunEnd(s, i + 1, UpperOrUnderscore)
         IN  IF e >= i + 1 /\ OccursAt(s, <<close>>, e + 1) THEN e + 1 ELSE 0
    ELSE 0

\* the patterns list: end of the match of pattern n at i, and width of its delimiters
patterns(n, s, i) ==
    CASE n = 1 -> MatchDouble(s, i)
      [] n = 2 -> MatchUpper(s, i, "[", "]")
      [] n = 3 -> MatchUpper(s, i, "{", "}")

DelimWidth(n) == IF n = 1 THEN 2 ELSE 1

RECURSIVE FindAll(_, _, _)
\* set(re.findall(patterns[n], s)) scanning from i: leftmost matches, not overlapping
FindAll(n, s, i) ==
    IF i > Len(s) THEN {}
    ELSE LET e == patterns(n, s, i)
         IN  IF e = 0 THEN FindAll(n, s, i + 1)
             ELSE {SubSeq(s, i + DelimWidth(n), e - DelimWidth(n))} \cup FindAll(n, s, e + 1)

\* extract_from_text: the names the three patterns add to the placeholders set
extract_from_text(text) == UNION {FindAll(n, text, 1) : n \in 1..3}

\* ------------------------------------------------------------------------
\* python-docx Document
\* ------------------------------------------------------------------------
\* paragraph.text
ParaText(paragraph) == Concat(paragraph)

\* [p for row in table.rows for cell in row.cells for p in cell.paragraphs]
TableParagraphs(table) == Concat(Concat(table))

\* the paragraphs the loops of find_placeholders and replace_placeholders visit
BodyParagraphs(d) == d.paragraphs
AllTableParagraphs(d) == Concat([i \in 1..Len(d.tables) |-> TableParagraphs(d.tables[i])])
\* the footers left out of the walk
SectionParagraphs_HeadersOnly(d) ==
    Concat([i \in 1..Len(d.sections) |-> d.sections[i].header])
SectionParagraphs(d) ==
    Concat([i \in 1..Len(d.sections) |-> d.sections[i].header \o d.sections[i].footer])

\* find_placeholders(doc)
find_placeholders(d) ==
    LET inBody == UNION {extract_from_text(ParaText(p)) : p \in Range(BodyParagraphs(d))}
        inTables == UNION {extract_from_text(ParaText(p)) : p \in Range(AllTableParagraphs(d))}
        inSections == UNION {extract_from_text(ParaText(p)) : p \in Range(SectionParagraphs(d))}
    IN  Sorted(inBody \cup inTables \cup inSections)

\* the three token forms of replace_in_paragraph: its formats list
formats(placeholder) ==
    << <<"{", "{">> \o placeholder \o <<"}", "}">>,
       <<"[">> \o placeholder \o <<"]">>,
       <<"{">> \o placeholder \o <<"}">> >>

\* every form that occurs replaced, one after the other, without the break
replace_in_paragraph_every_form(paragraph, placeholder, value) ==
    LET text == ParaText(paragraph)
        fmts == formats(placeholder)
        found == {n \in 1..3 : Contains(text, fmts[n])}
        new_text == StrReplace(StrReplace(StrReplace(text, fmts[1], Str(value)),
                                          fmts[2], Str(value)),
                               fmts[3], Str(value))
    IN  IF found = {} THEN paragraph
        ELSE IF Len(paragraph) > 0
             THEN [i \in 1..Len(paragraph) |-> IF i = 1 THEN new_text ELSE <<>>]
             ELSE <<new_text>>

\* the runs after the first not cleared
replace_in_paragraph_keeping_runs(paragraph, placeholder, value) ==
    LET text == ParaText(paragraph)
        fmts == formats(placeholder)
        found == {n \in 1..3 : Contains(text, fmts[n])}
    IN  IF found = {} THEN paragraph
        ELSE LET fmt == fmts[CHOOSE n \in found : \A m \in found : n <= m]
                 new_text == StrReplace(text, fmt, Str(value))
             IN  IF Len(paragraph) > 0
                 THEN [i \in 1..Len(paragraph) |-> IF i = 1 THEN new_text ELSE paragraph[i]]
                 ELSE <<new_text>>

\* the runs rewritten whether or not a token was found
replace_in_paragraph_always(paragraph, placeholder, value) ==
    LET text == ParaText(paragraph)
        fmts == formats(placeholder)
        found == {n \in 1..3 : Contains(text, fmts[n])}
        new_text == IF found = {} THEN text
                    ELSE StrReplace(text, fmts[CHOOSE n \in found : \A m \in found : n <= m],
                                    Str(value))
    IN  IF Len(paragraph) > 0
        THEN [i \in 1..Len(paragraph) |-> IF i = 1 THEN new_text ELSE <<>>]
        ELSE <<new_text>>

\* replace_in_paragraph(paragraph, placeholder, value): the runs afterwards
replace_in_paragraph(paragraph, placeholder, value) ==
    LET text == ParaText(paragraph)
        fmts == formats(placeholder)
        found == {n \in 1..3 : Contains(text, fmts[n])}
    IN  IF found = {} THEN paragraph
        ELSE LET fmt == fmts[CHOOSE n \in found : \A m \in found : n <= m]
                 new_text == StrReplace(text, fmt, Str(value))
             IN  IF Len(paragraph) > 0
                 THEN [i \in 1..Len(paragraph) |-> IF i = 1 THEN new_text ELSE <<>>]
                 ELSE <<new_text>>

\* the headers left out of the walk
replace_field_skipping_headers(d, placeholder, value) ==
    LET rip(ps) == [i \in 1..Len(ps) |-> replace_in_paragraph(ps[i], placeholder, value)]
    IN  [paragraphs |-> rip(d.paragraphs),
         tables |-> [t \in 1..Len(d.tables) |->
                      [r \in 1..Len(d.tables[t]) |->
                        [c \in 1..Len(d.tables[t][r]) |-> rip(d.tables[t][r][c])]]],
         sections |-> [s \in 1..Len(d.sections) |->
                        [header |-> d.sections[s].header,
                         footer |-> rip(d.sections[s].footer)]]]

\* one iteration of "for placeholder, value in data.items()" of replace_placeholders
replace_field(d, placeholder, value) ==
    LET rip(ps) == [i \in 1..Len(ps) |-> replace_in_paragraph(ps[i], placeholder, value)]
    IN  [paragraphs |-> rip(d.paragraphs),
         tables |-> [t \in 1..Len(d.tables) |->
                      [r \in 1..Len(d.tables[t]) |->
                        [c \in 1..Len(d.tables[t][r]) |-> rip(d.tables[t][r][c])]]],
         sections |-> [s \in 1..Len(d.sections) |->
                        [header |-> rip(d.sections[s].header),
                         footer |-> rip(d.sections[s].footer)]]]

RECURSIVE replace_placeholders(_, _)
\* replace_placeholders(doc, data): the document after all fields, in dict order
replace_placeholders(d, data) ==
    IF data = <<>> THEN d
    ELSE replace_placeholders(replace_field(d, Head(data).key, Head(data).value), Tail(data))

\* save_document_to_bytes(doc)
save_document_to_bytes(d) == [docx |-> d]

\* ------------------------------------------------------------------------
\* Inputs of the model
\* ------------------------------------------------------------------------
A == <<"A">>
B == <<"B">>
FieldNames == {A, B}

\* the paragraphs documents are built from, each a sequence of run texts
Paras ==
    { << <<"[">>, <<"{", "{", "A", "}", "}">>, <<"]">> >>,
      << <<"{", "{", "A", "}", "}", " ">>, <<"[", "A", "]">> >>,
      << <<"x", "[", "B">>, <<"]">> >>,
      << <<"x">>, <<" ", "x">> >>,
      << <<"{", "A", "}">>, <<"{", "{", "B", "}", "}">> >> }

Regions == {"body", "table", "header", "footer"}

RECURSIVE Pick(_, _, _)
Pick(ps, place, r) ==
    IF ps = <<>> THEN <<>>
    ELSE (IF Head(place) = r THEN <<Head(ps)>> ELSE <<>>) \o Pick(Tail(ps), Tail(place), r)

\* the document with paragraphs ps, ps[i] placed in region place[i]: the table
\* paragraphs are the cells of the one row of one table
MkDoc(ps, place) ==
    LET tp == Pick(ps, place, "table")
    IN  [paragraphs |-> Pick(ps, place, "body"),
         tables |-> IF tp = <<>> THEN <<>> ELSE << << [i \in 1..Len(tp) |-> <<tp[i]>>] >> >>,
         sections |-> << [header |-> Pick(ps, place, "header"),
                          footer |-> Pick(ps, place, "footer")] >>]

Docs(n) == UNION {{MkDoc(ps, place) : ps \in [1..m -> Paras], place \in [1..m -> Regions]}
                  : m \in 0..n}

EmptyDoc == MkDoc(<<>>, <<>>)

Values == {JStr(<<"B">>), JNull}

\* dicts with distinct keys from FieldNames, in every insertion order
Mappings ==
    UNION {{[i \in 1..m |-> [key |-> ks[i], value |-> vs[i]]] :
              ks \in {f \in [1..m -> FieldNames] : \A i, j \in 1..m : f[i] = f[j] => i = j},
              vs \in [1..m -> Values]}
           : m \in 0..Cardinality(FieldNames)}

\* values of which one is the bracket token of field A
NestingValues == {JStr(<<"[", "A", "]">>), JNull}

\* dicts as Mappings, with values that may hold a token
NestingMappings ==
    UNION {{[i \in 1..m |-> [key |-> ks[i], value |-> vs[i]]] :
              ks \in {f \in [1..m -> FieldNames] : \A i, j \in 1..m : f[i] = f[j] => i = j},
              vs \in [1..m -> NestingValues]}
           : m \in 0..Cardinality(FieldNames)}

\* characters of the names of the one-token paragraphs, and the names themselves
NameChars == {"A", "a"}
Names == UNION {[1..m -> NameChars] : m \in 1..MaxNameLen}

\* the text of a token of form n (1: {{c}}, 2: [c], 3: {c}) with content c
TokenOfForm(n, c) ==
    CASE n = 1 -> <<"{", "{">> \o c \o <<"}", "}">>
      [] n = 2 -> <<"[">> \o c \o <<"]">>
      [] n = 3 -> <<"{">> \o c \o <<"}">>

\* paragraphs of two runs: a plain run, then one token
TokenParas == {<< <<"x">>, TokenOfForm(n, c) >> : n \in 1..3, c \in Names}

\* documents of at most two one-token paragraphs
TokenDocs == UNION {{MkDoc(ps, place) : ps \in [1..m -> TokenParas], place \in [1..m -> Regions]}
                    : m \in 0..2}

\* ------------------------------------------------------------------------
\* Python dict, insertion ordered
\* ------------------------------------------------------------------------
Keys(d) == {d[i].key : i \in 1..Len(d)}

\* d[key] = value
DictSet(d, key, value) ==
    IF key \in Keys(d)
    THEN [i \in 1..Len(d) |-> IF d[i].key = key THEN [key |-> key, value |-> value] ELSE d[i]]
    ELSE Append(d, [key |-> key, value |-> value])

\* d.get(key): None for a missing key
DictGet_NoDefault(d, key, default) ==
    IF key \in Keys(d) THEN (CHOOSE e \in Range(d) : e.key = key).value ELSE JNull

\* d.get(key, default)
DictGet(d, key, default) ==
    IF key \in Keys(d) THEN (CHOOSE e \in Range(d) : e.key = key).value ELSE default

\* ------------------------------------------------------------------------
\* modules/pdf_extractor.py
\* ------------------------------------------------------------------------
\* A text is a sequence of segments [kind, arg]:
\*   pages  the page texts extract_text_from_pdf joins for the file content arg
\*   error  the string "Error: ..." for the file content arg
\*   file   the line "File: <arg>"
\*   sep    the line "=== COMBINED REPORTS ==="
Seg(kind, arg) == [kind |-> kind, arg |-> arg]

\* extract_text_from_pdf(pdf_file) raises
PdfRaises(pdf_file) == pdf_file.content = "bad"

\* extract_text_from_pdf(pdf_file) when it returns
extract_text_from_pdf(pdf_file) == <<Seg("pages", pdf_file.content)>>

RECURSIVE extract_from_files(_, _)
\* the loop of extract_text_from_multiple_pdfs over the files left, results so far
extract_from_files(pdf_files, results) ==
    IF pdf_files = <<>> THEN results
    ELSE LET pdf_file == Head(pdf_files)
             text == IF PdfRaises(pdf_file) THEN <<Seg("error", pdf_file.content)>>
                     ELSE extract_text_from_pdf(pdf_file)
         IN  extract_from_files(Tail(pdf_files), DictSet(results, pdf_file.name, text))

\* extract_text_from_multiple_pdfs(pdf_files)
extract_text_from_multiple_pdfs(pdf_files) == extract_from_files(pdf_files, <<>>)

RECURSIVE Join(_, _)
\* sep.join(parts)
Join(sep, parts) ==
    IF parts = <<>> THEN <<>>
    ELSE IF Len(parts) = 1 THEN parts[1]
    ELSE parts[1] \o sep \o Join(sep, Tail(parts))

\* "\n\n=== COMBINED REPORTS ===\n\n".join([f"File: {name}\n{text}" ...])
CombinedReports(all_texts) ==
    Join(<<Seg("sep", "")>>,
         [i \in 1..Len(all_texts) |-> <<Seg("file", all_texts[i].key)>> \o all_texts[i].value])

\* ------------------------------------------------------------------------
\* modules/llm_processor.py
\* ------------------------------------------------------------------------
NotFound == JStr(<<"N", "o", "t", " ", "F", "o", "u", "n", "d">>)

\* what the one request of call_openrouter_api brings back:
\*   request_error    requests raises, or the status is an error
\*   bad_shape        the body has no choices[0].message.content
\*   non_json         the content is not JSON
\*   json_not_object  the content is JSON but not an object
\*   json_object      the content is the JSON object obj
ResponseKinds == {"request_error", "bad_shape", "non_json", "json_not_object", "json_object"}

\* a failed call answered with an all "Not Found" mapping instead of an exception
extract_fields_swallowing(phs, response) ==
    [ok |-> TRUE,
     data |-> [i \in 1..Len(phs) |->
                [key |-> phs[i],
                 value |-> IF response.kind = "json_object" /\ phs[i] \in Keys(response.obj)
                           THEN (CHOOSE e \in Range(response.obj) : e.key = phs[i]).value
                           ELSE NotFound]]]

\* extract_fields_from_text(placeholders, extracted_text, api_key) on response
extract_fields_from_text(phs, response) ==
    IF response.kind = "json_object"
    THEN [ok |-> TRUE,
          data |-> LET RECURSIVE fill(_, _)
                       fill(rest, result) ==
                           IF rest = <<>> THEN result
                           ELSE fill(Tail(rest),
                                     DictSet(result, Head(rest),
                                             DictGet(response.obj, Head(rest), NotFound)))
                   IN  fill(phs, <<>>)]
    ELSE [ok |-> FALSE, data |-> <<>>]

\* ------------------------------------------------------------------------
\* Inputs of the pipeline
\* ------------------------------------------------------------------------
Templates == {[ok |-> FALSE, doc |-> EmptyDoc]} \cup {[ok |-> TRUE, doc |-> d] : d \in Docs(1)}

ReportNames == {"r1.pdf", "r2.pdf"}
ReportContents == {"good", "bad"}
Reports == [name : ReportNames, content : ReportContents]

ResponseValues == {JStr(<<"x">>), JNull}

\* JSON objects over the field names
ResponseObjects ==
    UNION {{[i \in 1..Len(ks) |-> [key |-> ks[i], value |-> vs[i]]] :
              vs \in [1..Len(ks) -> ResponseValues]}
           : ks \in {<<>>, <<A>>, <<B>>, <<A, B>>}}

Responses ==
    {[kind |-> kd, obj |-> <<>>] : kd \in ResponseKinds \ {"json_object"}}
    \cup {[kind |-> "json_object", obj |-> o] : o \in ResponseObjects}

\* ------------------------------------------------------------------------
\* app.py: the pipeline behind the "Process Documents" button
\* ------------------------------------------------------------------------
Init ==
    /\ pc = "load"
    /\ template_file \in Templates
    /\ \E n \in 1..MaxReports : report_files \in [1..n -> Reports]
    /\ doc = EmptyDoc
    /\ placeholders = <<>>
    /\ extracted_text = <<>>
    /\ extracted_data = <<>>
    /\ n_replaced = 0
    /\ doc_bytes = <<>>
    /\ download = <<>>
    /\ llm_calls = <<>>
    /\ llm_response = <<>>

\* doc = load_template(template_file)
LoadTemplate ==
    /\ pc = "load"
    /\ IF template_file.ok
       THEN doc' = template_file.doc /\ pc' = "scan"
       ELSE doc' = doc /\ pc' = "error"
    /\ UNCHANGED <<template_file, report_files, placeholders, extracted_text,
                   extracted_data, n_replaced, doc_bytes, download, llm_calls, llm_response>>

\* the check of the scan result left out
NoPlaceholders_Ignored(phs) == FALSE

\* if not placeholders
NoPlaceholders(phs) == phs = <<>>

\* placeholders = find_placeholders(doc); st.stop() when there are none
FindPlaceholders ==
    /\ pc = "scan"
    /\ placeholders' = find_placeholders(doc)
    /\ pc' = IF NoPlaceholders(placeholders') THEN "stopped" ELSE "extract_text"
    /\ UNCHANGED <<template_file, report_files, doc, extracted_text,
                   extracted_data, n_replaced, doc_bytes, download, llm_calls, llm_response>>

\* step 2: the source text of the one report, or of the combined reports
ExtractText ==
    /\ pc = "extract_text"
    /\ IF Len(report_files) = 1
       THEN IF PdfRaises(report_files[1])
            THEN extracted_text' = extracted_text /\ pc' = "error"
            ELSE extracted_text' = extract_text_from_pdf(report_files[1]) /\ pc' = "llm"
       ELSE /\ extracted_text' = CombinedReports(extract_text_from_multiple_pdfs(report_files))
            /\ pc' = "llm"
    /\ UNCHANGED <<template_file, report_files, doc, placeholders,
                   extracted_data, n_replaced, doc_bytes, download, llm_calls, llm_response>>

\* step 3: extracted_data = extract_fields_from_text(placeholders, extracted_text, api_key)
ExtractFields ==
    /\ pc = "llm"
    /\ \E response \in Responses :
         LET result == extract_fields_from_text(placeholders, response)
         IN  /\ llm_calls' = Append(llm_calls, [placeholders |-> placeholders,
                                                 extracted_text |-> extracted_text])
             /\ llm_response' = <<response>>
             /\ IF result.ok
                THEN extracted_data' = result.data /\ pc' = "replace"
                ELSE extracted_data' = extracted_data /\ pc' = "error"
    /\ UNCHANGED <<template_file, report_files, doc, placeholders, extracted_text,
                   n_replaced, doc_bytes, download>>

\* step 4: doc_bytes = save_document_to_bytes(filled_doc), which may raise
SaveDocument ==
    /\ pc = "replace"
    /\ n_replaced = Len(extracted_data)
    /\ \E raises \in BOOLEAN :
         IF raises
         THEN doc_bytes' = doc_bytes /\ pc' = "error"
         ELSE doc_bytes' = <<save_document_to_bytes(doc)>> /\ pc' = "download"
    /\ UNCHANGED <<template_file, report_files, doc, placeholders, extracted_text,
                   extracted_data, n_replaced, download, llm_calls, llm_response>>

\* st.download_button(data=doc_bytes)
DownloadButton ==
    /\ pc = "download"
    /\ download' = doc_bytes
    /\ pc' = "done"
    /\ UNCHANGED <<template_file, report_files, doc, placeholders, extracted_text,
                   extracted_data, n_replaced, doc_bytes, llm_calls, llm_response>>

\* ------------------------------------------------------------------------
\* replace_placeholders, one field of the mapping per step
\* ------------------------------------------------------------------------
\* every field of the mapping substituted again after each field
ReplaceField_Rescanning ==
    /\ pc = "replace"
    /\ n_replaced < Len(extracted_data)
    /\ doc' = replace_placeholders(replace_field(doc, extracted_data[n_replaced + 1].key,
                                                 extracted_data[n_replaced + 1].value),
                                   extracted_data)
    /\ n_replaced' = n_replaced + 1
    /\ UNCHANGED <<pc, template_file, report_files, placeholders, extracted_text,
                   extracted_data, doc_bytes, download, llm_calls, llm_response>>

\* one field of the mapping substituted over all regions
ReplaceField ==
    /\ pc = "replace"
    /\ n_replaced < Len(extracted_data)
    /\ doc' = replace_field(doc, extracted_data[n_replaced + 1].key,
                            extracted_data[n_replaced + 1].value)
    /\ n_replaced' = n_replaced + 1
    /\ UNCHANGED <<pc, template_file, report_files, placeholders, extracted_text,
                   extracted_data, doc_bytes, download, llm_calls, llm_response>>

\* replace_placeholders(doc, data) called on its own
InitReplace ==
    /\ pc = "replace"
    /\ \E d \in Docs(MaxParas) :
         /\ template_file = [ok |-> TRUE, doc |-> d]
         /\ doc = d
    /\ extracted_data \in Mappings
    /\ n_replaced = 0
    /\ report_files = <<>>
    /\ placeholders = <<>>
    /\ extracted_text = <<>>
    /\ doc_bytes = <<>>
    /\ download = <<>>
    /\ llm_calls = <<>>
    /\ llm_response = <<>>

NextReplace == ReplaceField

SpecReplace == InitReplace /\ [][NextReplace]_vars

\* find_placeholders(doc) called on its own
InitScan ==
    /\ pc = "scan"
    /\ \E d \in Docs(MaxParas) :
         /\ template_file = [ok |-> TRUE, doc |-> d]
         /\ doc = d
    /\ extracted_data = <<>>
    /\ n_replaced = 0
    /\ report_files = <<>>
    /\ placeholders = <<>>
    /\ extracted_text = <<>>
    /\ doc_bytes = <<>>
    /\ download = <<>>
    /\ llm_calls = <<>>
    /\ llm_response = <<>>

NextScan == FindPlaceholders

SpecScan == InitScan /\ [][NextScan]_vars

\* replace_placeholders(doc, data) called with values that may hold a token
InitNesting ==
    /\ pc = "replace"
    /\ \E d \in Docs(MaxParas) :
         /\ template_file = [ok |-> TRUE, doc |-> d]
         /\ doc = d
    /\ extracted_data \in NestingMappings
    /\ n_replaced = 0
    /\ report_files = <<>>
    /\ placeholders = <<>>
    /\ extracted_text = <<>>
    /\ doc_bytes = <<>>
    /\ download = <<>>
    /\ llm_calls = <<>>
    /\ llm_response = <<>>

NextNesting == ReplaceField

SpecNesting == InitNesting /\ [][NextNesting]_vars

\* find_placeholders(doc) called on a document of one-token paragraphs
InitGrammar ==
    /\ pc = "scan"
    /\ \E d \in TokenDocs :
         /\ template_file = [ok |-> TRUE, doc |-> d]
         /\ doc = d
    /\ extracted_data = <<>>
    /\ n_replaced = 0
    /\ report_files = <<>>
    /\ placeholders = <<>>
    /\ extracted_text = <<>>
    /\ doc_bytes = <<>>
    /\ download = <<>>
    /\ llm_calls = <<>>
    /\ llm_response = <<>>

NextGrammar == FindPlaceholders

SpecGrammar == InitGrammar /\ [][NextGrammar]_vars

\* replace_placeholders(doc, data) called as step 4 does: the keys of the mapping
\* are the list find_placeholders gave for the same document
InitFill ==
    /\ pc = "replace"
    /\ \E d \in TokenDocs :
         /\ template_file = [ok |-> TRUE, doc |-> d]
         /\ doc = d
         /\ placeholders = find_placeholders(d)
         /\ \E vs \in [1..Len(find_placeholders(d)) -> ResponseValues] :
              extracted_data = [i \in 1..Len(find_placeholders(d)) |->
                                  [key |-> find_placeholders(d)[i], value |-> vs[i]]]
    /\ n_replaced = 0
    /\ report_files = <<>>
    /\ extracted_text = <<>>
    /\ doc_bytes = <<>>
    /\ download = <<>>
    /\ llm_calls = <<>>
    /\ llm_response = <<>>

NextFill == ReplaceField

SpecFill == InitFill /\ [][NextFill]_vars

\* ------------------------------------------------------------------------
\* Vocabulary of the properties
\* ------------------------------------------------------------------------
\* every paragraph of a document, region by region, read off its structure
ParagraphsOf(d) ==
    LET RECURSIVE flat(_)
        flat(ss) == IF ss = <<>> THEN <<>> ELSE Head(ss) \o flat(Tail(ss))
    IN  d.paragraphs
        \o flat([t \in 1..Len(d.tables) |->
                  flat([r \in 1..Len(d.tables[t]) |-> flat(d.tables[t][r])])])
        \o flat([s \in 1..Len(d.sections) |-> d.sections[s].header])
        \o flat([s \in 1..Len(d.sections) |-> d.sections[s].footer])

TextsOf(d) == [i \in 1..Len(ParagraphsOf(d)) |-> ParaText(ParagraphsOf(d)[i])]

\* the document the run loaded, before any substitution
Loaded == template_file.doc

Scanned == template_file.ok /\ pc \notin {"load", "scan"}

ReplaceDone == pc = "replace" /\ n_replaced = Len(extracted_data)

ResponseFailed == llm_response # <<>> /\ llm_response[1].kind # "json_object"

\* the three token forms of field name f
Token(f) == {<<"{", "{">> \o f \o <<"}", "}">>, <<"[">> \o f \o <<"]">>, <<"{">> \o f \o <<"}">>}

HasTokenOf(text, f) == \E tok \in Token(f) : Contains(text, tok)

\* no value of the mapping contains a token of a field of the mapping
NoSyntaxInValues(data) ==
    \A i, j \in 1..Len(data) : ~HasTokenOf(Str(data[i].value), data[j].key)

Lowercase == {"a", "d", "e", "n", "o", "t", "u", "x"}

HasLowercase(s) == \E i \in 1..Len(s) : s[i] \in Lowercase

Delimiters == {"{", "}", "[", "]"}
Plain == {CodePoints[i] : i \in 1..Len(CodePoints)} \ Delimiters

IsPlain(s) == \A i \in 1..Len(s) : s[i] \in Plain

\* end of a token {{n}}, [n] or {n} with a plain, non-empty n that starts at i; 0 if none
TokenEnd(s, i) ==
    LET close(w, c) ==
            LET e == RunEnd(s, i + w, Plain)
            IN  IF e >= i + w /\ OccursAt(s, c, e + 1) THEN e + Len(c) ELSE 0
    IN  IF OccursAt(s, <<"{", "{">>, i) THEN close(2, <<"}", "}">>)
        ELSE IF OccursAt(s, <<"{">>, i) THEN close(1, <<"}">>)
        ELSE IF OccursAt(s, <<"[">>, i) THEN close(1, <<"]">>)
        ELSE 0

RECURSIVE TokensAndPlainFrom(_, _)
TokensAndPlainFrom(s, i) ==
    IF i > Len(s) THEN TRUE
    ELSE IF s[i] \in Plain THEN TokensAndPlainFrom(s, i + 1)
    ELSE TokenEnd(s, i) # 0 /\ TokensAndPlainFrom(s, TokenEnd(s, i) + 1)

\* every delimiter character of every paragraph belongs to a token, and the names
\* and the string forms of the values of the mapping hold no delimiter character
WellFormed(d, data) ==
    /\ \A i \in 1..Len(TextsOf(d)) : TokensAndPlainFrom(TextsOf(d)[i], 1)
    /\ \A i \in 1..Len(data) :
         data[i].key # <<>> /\ IsPlain(data[i].key) /\ IsPlain(Str(data[i].value))

\* number of positions of s at which t occurs
CountOcc(s, t) == Cardinality({i \in 1..Len(s) : OccursAt(s, t, i)})

\* the forms of field f that occur in text, and the first of them
HeldForms(text, f) == {n \in 1..3 : Contains(text, TokenOfForm(n, f))}
FirstForm(text, f) == CHOOSE n \in HeldForms(text, f) : \A m \in HeldForms(text, f) : n <= m

\* the field the next step of replace_placeholders works on
CurrentField == extracted_data[n_replaced + 1]

Orderings(data) ==
    {[i \in 1..Len(data) |-> data[f[i]]] :
       f \in {g \in [1..Len(data) -> 1..Len(data)] :
                \A i, j \in 1..Len(data) : g[i] = g[j] => i = j}}

\* ------------------------------------------------------------------------
\* Properties
\* ------------------------------------------------------------------------
\* C1: when find_placeholders returns an empty list for the loaded template the
\* run halts there: no text extraction, no call of extract_fields_from_text, no
\* substitution, no serialization and no download artifact ever follow.
C1_HaltsWithoutPlaceholders ==
    (Scanned /\ find_placeholders(Loaded) = <<>>) =>
        /\ pc = "stopped"
        /\ extracted_text = <<>>
        /\ llm_calls = <<>>
        /\ n_replaced = 0
        /\ doc = Loaded
        /\ doc_bytes = <<>>
        /\ download = <<>>

C1_Witness ==
    /\ pc = "stopped"
    /\ placeholders = <<>>
    /\ Len(ParagraphsOf(doc)) = 1

\* C2: the extraction collaborator is called at most once per run, with the whole
\* scanned field list and the whole source text; substitution starts only after
\* the call returned a mapping with every scanned field; when the call fails the
\* run aborts with the document as it was loaded.
C2_OneAtomicExtraction ==
    /\ Len(llm_calls) <= 1
    /\ \A i \in 1..Len(llm_calls) :
         /\ llm_calls[i].placeholders = find_placeholders(Loaded)
         /\ llm_calls[i].extracted_text = extracted_text
    /\ (n_replaced > 0 \/ (Scanned /\ doc # Loaded) \/ pc \in {"replace", "download", "done"}) =>
         /\ Len(llm_calls) = 1
         /\ llm_response # <<>> /\ llm_response[1].kind = "json_object"
         /\ \A i \in 1..Len(placeholders) : placeholders[i] \in Keys(extracted_data)
    /\ ResponseFailed =>
         /\ pc = "error"
         /\ Len(llm_calls) = 1
         /\ doc = Loaded
         /\ n_replaced = 0
         /\ doc_bytes = <<>>
         /\ download = <<>>

C2_Witness ==
    /\ ResponseFailed
    /\ pc = "error"
    /\ Len(llm_calls) = 1
    /\ Len(placeholders) = 2
    /\ Len(report_files) = 2

\* C3: no partial output: a download artifact exists only when load, scan, text
\* extraction of every report, field extraction, substitution of the whole mapping
\* and serialization all completed without failure.
C3_NoPartialOutput ==
    download # <<>> =>
        /\ template_file.ok
        /\ \A i \in 1..Len(report_files) : ~PdfRaises(report_files[i])
        /\ ~ResponseFailed
        /\ n_replaced = Len(extracted_data)
        /\ download = <<save_document_to_bytes(replace_placeholders(Loaded, extracted_data))>>

\* C4: a failure of text extraction for any uploaded report, one or several,
\* aborts the run: no call of the extraction collaborator, no substitution and no
\* output document follow, and the failure is not passed on as source text.
C4_TextExtractionFailureAborts ==
    (\E i \in 1..Len(report_files) : PdfRaises(report_files[i])) =>
        /\ extracted_text = <<>>
        /\ llm_calls = <<>>
        /\ n_replaced = 0
        /\ doc_bytes = <<>>
        /\ download = <<>>

\* C5: when extract_fields_from_text returns, the mapping has every requested
\* field as a key, with the value of the parsed response for that name when the
\* response has it and "Not Found" otherwise.
C5_CompleteMapping ==
    (llm_response # <<>> /\ llm_response[1].kind = "json_object") =>
        /\ Keys(extracted_data) = Range(placeholders)
        /\ \A i \in 1..Len(extracted_data) :
             LET hits == {j \in 1..Len(llm_response[1].obj) :
                            llm_response[1].obj[j].key = extracted_data[i].key}
             IN  IF hits = {}
                 THEN extracted_data[i].value = NotFound
                 ELSE \A j \in hits : extracted_data[i].value = llm_response[1].obj[j].value

C5_Witness ==
    /\ pc = "replace"
    /\ Len(extracted_data) = 2
    /\ Len(llm_response[1].obj) = 1
    /\ \E i \in 1..2 : extracted_data[i].value = NotFound
    /\ \E i \in 1..2 : extracted_data[i].value # NotFound

\* C6: the list find_placeholders returns has no duplicate, is in ascending
\* lexicographic order, and holds exactly the names the three patterns capture
\* in the body, table-cell, header and footer paragraphs.
C6_ScanSortedUniqueComplete ==
    pc # "scan" =>
        /\ \A i, j \in 1..Len(placeholders) : i < j => StrLess(placeholders[i], placeholders[j])
        /\ \A i, j \in 1..Len(placeholders) : placeholders[i] = placeholders[j] => i = j
        /\ Range(placeholders) =
             UNION {extract_from_text(TextsOf(doc)[i]) : i \in 1..Len(TextsOf(doc))}

C6_Witness ==
    /\ pc # "scan"
    /\ placeholders = <<A, B>>
    /\ doc.paragraphs # <<>>
    /\ doc.sections[1].footer # <<>>
    /\ B \in extract_from_text(ParaText(doc.paragraphs[1]))
    /\ A \in extract_from_text(ParaText(doc.sections[1].footer[1]))

\* C7 as stated: once replace_placeholders has run, with no value holding a
\* token of a field of the mapping, every order of the fields gives the same text
\* in every paragraph.
C7_AnyOrderSameText ==
    (ReplaceDone /\ NoSyntaxInValues(extracted_data)) =>
        \A other \in Orderings(extracted_data) :
            TextsOf(replace_placeholders(Loaded, other)) = TextsOf(doc)

\* C7 amended: the same, for documents in which every delimiter character
\* belongs to a token and mappings whose names and values hold no delimiter.
C7_AnyOrderSameTextWellFormed ==
    (ReplaceDone /\ WellFormed(Loaded, extracted_data)) =>
        \A other \in Orderings(extracted_data) :
            TextsOf(replace_placeholders(Loaded, other)) = TextsOf(doc)

C7_Witness ==
    /\ ReplaceDone
    /\ WellFormed(Loaded, extracted_data)
    /\ Len(extracted_data) = 2
    /\ \E i \in 1..Len(TextsOf(Loaded)) :
         HasTokenOf(TextsOf(Loaded)[i], A) /\ HasTokenOf(TextsOf(Loaded)[i], B)
    /\ \A i \in 1..Len(TextsOf(doc)) : IsPlain(TextsOf(doc)[i])

\* C8 as stated: after replace_placeholders, with values that hold no placeholder
\* syntax, no paragraph of any region holds a token {{F}}, [F] or {F} of a field
\* F of the mapping, and find_placeholders reports no field of the mapping.
C8_NoTokenLeft ==
    (ReplaceDone /\ NoSyntaxInValues(extracted_data)) =>
        /\ \A i \in 1..Len(TextsOf(doc)) : \A f \in Keys(extracted_data) :
             ~HasTokenOf(TextsOf(doc)[i], f)
        /\ Range(find_placeholders(doc)) \cap Keys(extracted_data) = {}

\* C8 amended: for documents in which every delimiter character belongs to a
\* token and mappings whose names and values hold no delimiter, after
\* replace_placeholders no paragraph holds a token of a field F of the mapping in
\* the first of the forms {{F}}, [F], {F} that the paragraph held before.
C8_FirstFormReplaced ==
    (ReplaceDone /\ WellFormed(Loaded, extracted_data)) =>
        \A i \in 1..Len(TextsOf(doc)) : \A e \in Range(extracted_data) :
            LET held == {n \in 1..3 : Contains(TextsOf(Loaded)[i], formats(e.key)[n])}
            IN  \A n \in held :
                    (\A m \in held : n <= m) => ~Contains(TextsOf(doc)[i], formats(e.key)[n])

C8_Witness ==
    /\ ReplaceDone
    /\ WellFormed(Loaded, extracted_data)
    /\ Keys(extracted_data) = {A, B}
    /\ Loaded.sections[1].header # <<>>
    /\ HasTokenOf(ParaText(Loaded.sections[1].header[1]), A)
    /\ ~HasTokenOf(ParaText(doc.sections[1].header[1]), A)
    /\ \E i \in 1..Len(TextsOf(doc)) : HasTokenOf(TextsOf(doc)[i], A)

\* C10: replace_placeholders leaves a paragraph whose text holds no token of any
\* field of the mapping as it was: the same number of runs, each with its text.
C10_OtherParagraphsUntouched ==
    pc = "replace" =>
        \A i \in 1..Len(ParagraphsOf(Loaded)) :
            (\A f \in Keys(extracted_data) : ~HasTokenOf(TextsOf(Loaded)[i], f)) =>
                ParagraphsOf(doc)[i] = ParagraphsOf(Loaded)[i]

C10_Witness ==
    /\ ReplaceDone
    /\ Len(ParagraphsOf(Loaded)) = 2
    /\ \E i, j \in 1..2 :
         /\ \A f \in Keys(extracted_data) : ~HasTokenOf(TextsOf(Loaded)[i], f)
         /\ Len(ParagraphsOf(doc)[i]) = 2
         /\ ParagraphsOf(doc)[j] # ParagraphsOf(Loaded)[j]

\* C12: in one pass for one field, replace_in_paragraph replaces in a paragraph
\* only the first of the forms {{F}}, [F], {F} whose token occurs in its text;
\* the tokens of F in the lower-priority forms stay as they were.
C12_FirstFormOnly ==
    [][\A i \in 1..Len(TextsOf(doc)) :
         LET f == CurrentField.key
             v == Str(CurrentField.value)
             old == TextsOf(doc)[i]
             new == TextsOf(doc')[i]
         IN  IF HeldForms(old, f) = {} THEN new = old
             ELSE LET n == FirstForm(old, f)
                  IN  /\ new = StrReplace(old, TokenOfForm(n, f), v)
                      /\ (TokensAndPlainFrom(old, 1) /\ IsPlain(v) /\ IsPlain(f)) =>
                           \A m \in (n + 1)..3 :
                               CountOcc(new, TokenOfForm(m, f)) =
                                   CountOcc(old, TokenOfForm(m, f))
                                   - (IF n = 1 /\ m = 3 THEN CountOcc(old, TokenOfForm(1, f))
                                      ELSE 0)
      ]_vars

C12_Witness ==
    /\ pc = "replace"
    /\ n_replaced = 1
    /\ extracted_data[1].key = A
    /\ \E i \in 1..Len(TextsOf(doc)) :
         /\ HeldForms(TextsOf(Loaded)[i], A) = {1, 2, 3}
         /\ HeldForms(TextsOf(doc)[i], A) = {2}

\* C13: when replace_in_paragraph finds a token in a paragraph, afterwards one
\* run holds the whole new text: with runs before, the number of runs is the
\* same, the first run has the full substituted text and the others are empty;
\* with no run before, one run with that text is appended.  The text of the
\* paragraph is the old text with the token replaced by the string of the value.
C13_TextInSingleRun ==
    [][\A i \in 1..Len(ParagraphsOf(doc)) :
         LET f == CurrentField.key
             old == ParagraphsOf(doc)[i]
             new == ParagraphsOf(doc')[i]
         IN  HeldForms(ParaText(old), f) # {} =>
               /\ ParaText(new) = StrReplace(ParaText(old),
                                             TokenOfForm(FirstForm(ParaText(old), f), f),
                                             Str(CurrentField.value))
               /\ new[1] = ParaText(new)
               /\ IF Len(old) > 0
                  THEN Len(new) = Len(old) /\ \A j \in 2..Len(new) : new[j] = <<>>
                  ELSE Len(new) = 1
      ]_vars

C13_Witness ==
    /\ pc = "replace"
    /\ n_replaced = 1
    /\ \E i \in 1..Len(ParagraphsOf(doc)) :
         /\ Len(ParagraphsOf(Loaded)[i]) = 3
         /\ \A j \in 1..3 : ParagraphsOf(Loaded)[i][j] # <<>>
         /\ HeldForms(ParaText(ParagraphsOf(Loaded)[i]), extracted_data[1].key) # {}
         /\ ParagraphsOf(doc)[i] = <<ParaText(ParagraphsOf(doc)[i]), <<>>, <<>>>>

\* C14: substitution is one pass per field: the document is at every step the
\* result of substituting the fields done so far once each, in order; and when
\* the value of a later field holds a token of an earlier field, the token that
\* the later field's value brings into a paragraph is still there at the end.
C14_SinglePass ==
    pc = "replace" =>
        /\ n_replaced <= Len(extracted_data)
        /\ doc = replace_placeholders(Loaded, SubSeq(extracted_data, 1, n_replaced))
        /\ ReplaceDone =>
             \A j \in 1..Len(extracted_data) : \A i \in 1..(j - 1) :
                 \A tok \in Token(extracted_data[i].key) :
                     Contains(Str(extracted_data[j].value), tok) =>
                         LET mid == TextsOf(replace_placeholders(Loaded,
                                                SubSeq(extracted_data, 1, j - 1)))
                         IN  \A q \in 1..Len(mid) :
                                 HeldForms(mid[q], extracted_data[j].key) # {} =>
                                     Contains(TextsOf(doc)[q], tok)

C14_Witness ==
    /\ ReplaceDone
    /\ Len(extracted_data) = 2
    /\ extracted_data[1].key = A
    /\ extracted_data[2] = [key |-> B, value |-> JStr(<<"[", "A", "]">>)]
    /\ \E q \in 1..Len(TextsOf(doc)) :
         /\ ~Contains(TextsOf(Loaded)[q], <<"[", "A", "]">>)
         /\ Contains(TextsOf(doc)[q], <<"[", "A", "]">>)

\* C15: with the scanned names as the keys of the mapping, replace_placeholders
\* rewrites only text that the patterns of find_placeholders recognise as a
\* placeholder: a paragraph in which they capture nothing, such as one whose only
\* token is [a] or {a}, keeps its text.
C15_OnlyGrammarTokensReplaced ==
    pc = "replace" =>
        \A i \in 1..Len(TextsOf(doc)) :
            extract_from_text(TextsOf(Loaded)[i]) = {} =>
                TextsOf(doc)[i] = TextsOf(Loaded)[i]

\* C9: with two uploaded reports the combined source text has exactly one
\* COMBINED REPORTS separator and exactly two File: sections, one per report, in
\* input order, also when the two reports carry the same file name.
C9_TwoReportsTwoSections ==
    (Len(report_files) = 2 /\ extracted_text # <<>>) =>
        /\ Cardinality({i \in 1..Len(extracted_text) : extracted_text[i].kind = "sep"}) = 1
        /\ SelectSeq(extracted_text, LAMBDA seg : seg.kind = "file")
             = <<Seg("file", report_files[1].name), Seg("file", report_files[2].name)>>

\* C11: a single occurrence of each of the three syntaxes in a paragraph is
\* detected by find_placeholders with exactly the content between the delimiters
\* as its name; from the forms [..] and {..} a content with a lowercase letter is
\* never returned.
C11_SingleOccurrenceCaptured ==
    pc # "scan" =>
        Range(placeholders) =
            {c \in Names : \E i \in 1..Len(TextsOf(doc)) : \E n \in 1..3 :
                /\ TextsOf(doc)[i] = <<"x">> \o TokenOfForm(n, c)
                /\ n = 1 \/ ~HasLowercase(c)}

C11_Witness ==
    /\ pc # "scan"
    /\ placeholders = <<A>>
    /\ Len(TextsOf(doc)) = 2
    /\ TextsOf(doc)[1] = <<"x", "[", "a", "]">>
    /\ TextsOf(doc)[2] = <<"x", "{", "A", "}">>

Next ==
    \/ LoadTemplate
    \/ FindPlaceholders
    \/ ExtractText
    \/ ExtractFields
    \/ ReplaceField
    \/ SaveDocument
    \/ DownloadButton

Spec == Init /\ [][Next]_vars

====
